---- MODULE Spec2Model ----
(***************************************************************************)
(* Model of quangis/transformation/type.py: the subtype-aware unifier over *)
(* plain terms, variable cells with bounds, constraints and application.   *)
(*                                                                         *)
(* A plain term is a value: an OperatorTerm (operator name and parameter   *)
(* sequence; never mutated after construction) or a reference to a         *)
(* VariableTerm by its id.  The mutable part of the program, the fields    *)
(* lower / upper / unified of every VariableTerm ever constructed, is the  *)
(* heap `cells`, indexed by id + 1.  Every method that mutates cells is an *)
(* operator from a heap to a record [h, st, ...]: the heap it leaves       *)
(* behind (also when it raises: Python keeps the assignments made before   *)
(* the exception) and "ok" or the name of the exception raised.            *)
(***************************************************************************)
EXTENDS Integers, Sequences, FiniteSets, TLC

VARIABLES
    cells,    \* the VariableTerm objects constructed so far, by id + 1
    cur,      \* the Term the client holds
    status,   \* "ok" or the exception of the last call ("init" before it)
    schema,   \* the name of the schema `cur` was instantiated from
    hist,     \* the arguments of the calls made on `cur`, in order
    sat,      \* the constraints whose enforce() has returned False, and when
    raised,   \* TRUE once a call has raised
    calls     \* the number of mutating calls made

vars == <<cells, cur, status, schema, hist, sat, raised, calls>>

----------------------------------------------------------------------------
(* Bounds of the model *)

\* frames of unify_subtype / subtype / resolve before RecursionError
MaxDepth == 12
\* client calls in one behaviour of Spec
MaxCalls == 2
\* applications in one behaviour of SpecApply
MaxApply == 2

----------------------------------------------------------------------------
(* Operators: the registry of the test-suite plus Function *)

None == "None"

BasicOps == {"Any", "Ord", "Bool", "Str", "Int", "UInt"}

supertype(op) ==
    CASE op = "Ord" -> "Any"
      [] op = "Bool" -> "Ord"
      [] op = "Str" -> "Ord"
      [] op = "Int" -> "Ord"
      [] op = "UInt" -> "Int"
      [] OTHER -> None

COVARIANT == "COVARIANT"
CONTRAVARIANT == "CONTRAVARIANT"

variance(op) ==
    CASE op = "T" -> <<COVARIANT>>
      [] op = "Set" -> <<COVARIANT>>
      [] op = "Function" -> <<CONTRAVARIANT, COVARIANT>>
      [] OTHER -> <<>>

arity(op) == Len(variance(op))

basic(op) == arity(op) = 0

RECURSIVE lt(_, _)

\* Operator.__le__ ; Operator.__eq__ is equality of names here, every name
\* of the registry having one variance vector
le(a, b) == a = b \/ lt(a, b)

\* Operator.__lt__
lt(a, b) == supertype(a) # None /\ le(supertype(a), b)

----------------------------------------------------------------------------
(* Plain terms and variable cells *)

Var(i) == [k |-> "var", id |-> i, op |-> "", params |-> <<>>]

OperatorTerm(o, ps) == [k |-> "op", id |-> 0, op |-> o, params |-> ps]

Function(a, b) == OperatorTerm("Function", <<a, b>>)

\* no term: the value of `unified` of a root cell
NoTerm == [k |-> "none", id |-> 0, op |-> "", params |-> <<>>]

\* what follow() yields on a cycle of variable cells: it never returns
Diverged == [k |-> "diverged", id |-> 0, op |-> "", params |-> <<>>]

\* VariableTerm.__init__
VariableTerm == [lower |-> None, unified |-> NoTerm, upper |-> None]

\* Term.__init__
Term(plain, constraints) == [plain |-> plain, constraints |-> constraints]

ok(h) == [h |-> h, st |-> "ok"]

raise(h, e) == [h |-> h, st |-> e]

RECURSIVE followN(_, _, _)

\* a chain of more than Len(h) cells visits a cell twice: the recursion of
\* follow() does not end
followN(h, t, n) ==
    IF t.k = "var" /\ h[t.id].unified # NoTerm
    THEN IF n = 0 THEN Diverged ELSE followN(h, h[t.id].unified, n - 1)
    ELSE t

\* PlainTerm.follow
follow(h, t) == followN(h, t, Len(h))

RECURSIVE contains(_, _)

\* PlainTerm.__contains__ : self.__contains__(value); the parameters are
\* compared as they are, without follow()
contains(self, value) ==
    \/ value = self
    \/ /\ self.k = "op"
       /\ \E i \in 1..Len(self.params) : contains(self.params[i], value)

RECURSIVE skeleton(_, _)
RECURSIVE skeleton_params(_, _, _)

\* the generator of skeleton(): the parameters from position i on, in order
skeleton_params(h, ps, i) ==
    IF i > Len(ps) THEN [h |-> h, ts |-> <<>>]
    ELSE LET r == skeleton(h, ps[i])
             rest == skeleton_params(r.h, ps, i + 1)
         IN [h |-> rest.h, ts |-> <<r.t>> \o rest.ts]

\* PlainTerm.skeleton
skeleton(h, t) ==
    IF t.k = "op"
    THEN IF basic(t.op)
         THEN [h |-> Append(h, VariableTerm), t |-> Var(Len(h) + 1)]
         ELSE LET r == skeleton_params(h, t.params, 1)
              IN [h |-> r.h, t |-> OperatorTerm(t.op, r.ts)]
    ELSE [h |-> h, t |-> t]

\* above() without the branch that ignores a bound below the present one
above_strict(h, v, new) ==
    LET lower == IF h[v].lower # None THEN h[v].lower ELSE new
        upper == IF h[v].upper # None THEN h[v].upper ELSE new
    IN IF lt(upper, new) THEN raise(h, "SubtypeMismatch")
       ELSE IF le(lower, new) THEN ok([h EXCEPT ![v].lower = new])
       ELSE raise(h, "SubtypeMismatch")

\* VariableTerm.above
above(h, v, new) ==
    LET lower == IF h[v].lower # None THEN h[v].lower ELSE new
        upper == IF h[v].upper # None THEN h[v].upper ELSE new
    IN IF lt(upper, new) THEN raise(h, "SubtypeMismatch")
       ELSE IF lt(new, lower) THEN ok(h)
       ELSE IF le(lower, new) THEN ok([h EXCEPT ![v].lower = new])
       ELSE raise(h, "SubtypeMismatch")

\* VariableTerm.below
below(h, v, new) ==
    LET lower == IF h[v].lower # None THEN h[v].lower ELSE new
        upper == IF h[v].upper # None THEN h[v].upper ELSE new
    IN IF lt(new, lower) THEN raise(h, "SubtypeMismatch")
       ELSE IF lt(upper, new) THEN ok(h)
       ELSE IF le(new, upper) THEN ok([h EXCEPT ![v].upper = new])
       ELSE raise(h, "SubtypeMismatch")

RECURSIVE unify(_, _, _)

\* unify() without its assertion (as under python -O): a fused cell is
\* fused again
unify_unchecked(h, v, t) ==
    IF t = Var(v) THEN ok(h)
    ELSE LET h1 == [h EXCEPT ![v].unified = t]
         IN IF t.k = "var"
            THEN LET r1 == IF h1[v].lower # None
                           THEN above(h1, t.id, h1[v].lower) ELSE ok(h1)
                     r2 == IF r1.h[v].upper # None
                           THEN below(r1.h, t.id, r1.h[v].upper) ELSE ok(r1.h)
                 IN IF r1.st # "ok" THEN r1
                    ELSE IF r2.st # "ok" THEN r2
                    ELSE IF /\ r2.h[t.id].lower = r2.h[t.id].upper
                            /\ r2.h[t.id].lower # None
                         THEN unify(r2.h, t.id,
                                    OperatorTerm(r2.h[t.id].lower, <<>>))
                         ELSE r2
            ELSE IF t.k = "op" /\ basic(t.op)
            THEN IF h1[v].lower # None /\ lt(t.op, h1[v].lower)
                 THEN raise(h1, "SubtypeMismatch")
                 ELSE IF h1[v].upper # None /\ lt(h1[v].upper, t.op)
                 THEN raise(h1, "SubtypeMismatch")
                 ELSE ok(h1)
            ELSE ok(h1)

\* VariableTerm.unify : cell v with term t
unify(h, v, t) ==
    IF ~(h[v].unified = NoTerm \/ t = h[v].unified)
    THEN raise(h, "AssertionError")
    ELSE IF t = Var(v) THEN ok(h)
    ELSE LET h1 == [h EXCEPT ![v].unified = t]
         IN IF t.k = "var"
            THEN LET r1 == IF h1[v].lower # None
                           THEN above(h1, t.id, h1[v].lower) ELSE ok(h1)
                     r2 == IF r1.h[v].upper # None
                           THEN below(r1.h, t.id, r1.h[v].upper) ELSE ok(r1.h)
                 IN IF r1.st # "ok" THEN r1
                    ELSE IF r2.st # "ok" THEN r2
                    ELSE IF /\ r2.h[t.id].lower = r2.h[t.id].upper
                            /\ r2.h[t.id].lower # None
                         THEN unify(r2.h, t.id,
                                    OperatorTerm(r2.h[t.id].lower, <<>>))
                         ELSE r2
            ELSE IF t.k = "op" /\ basic(t.op)
            THEN IF h1[v].lower # None /\ lt(t.op, h1[v].lower)
                 THEN raise(h1, "SubtypeMismatch")
                 ELSE IF h1[v].upper # None /\ lt(h1[v].upper, t.op)
                 THEN raise(h1, "SubtypeMismatch")
                 ELSE ok(h1)
            ELSE ok(h1)

And(x, y) == IF x = "True" /\ y = "True" THEN "True" ELSE "False"

RECURSIVE subtype(_, _, _, _)
RECURSIVE subtype_params(_, _, _, _, _, _)

\* the loop of subtype() taking every parameter for covariant
subtype_params_covariant(h, a, b, i, result, d) ==
    IF i > Len(a.params) \/ i > Len(b.params) THEN result
    ELSE LET r == subtype(h, a.params[i], b.params[i], d)
         IN IF r = "RecursionError" THEN r
            ELSE IF r = "None" THEN "None"
            ELSE subtype_params(h, a, b, i + 1, And(result, r), d)

\* the loop of subtype() over zip(variance, a.params, b.params) from
\* position i on, `result` being the conjunction so far
subtype_params(h, a, b, i, result, d) ==
    IF i > Len(a.params) \/ i > Len(b.params) THEN result
    ELSE LET r == IF variance(a.op)[i] = COVARIANT
                  THEN subtype(h, a.params[i], b.params[i], d)
                  ELSE subtype(h, b.params[i], a.params[i], d)
         IN IF r = "RecursionError" THEN r
            ELSE IF r = "None" THEN "None"
            ELSE subtype_params(h, a, b, i + 1, And(result, r), d)

\* PlainTerm.subtype : "True", "False" or "None"; "RecursionError" when the
\* recursion does not end
subtype(h, self, other, d) ==
    LET a == follow(h, self)
        b == follow(h, other)
    IN IF d = 0 \/ a = Diverged \/ b = Diverged THEN "RecursionError"
       ELSE IF a.k = "op" /\ b.k = "op"
       THEN IF basic(a.op)
            THEN (IF le(a.op, b.op) THEN "True" ELSE "False")
            ELSE IF a.op # b.op THEN "False"
            ELSE subtype_params(h, a, b, 1, "True", d - 1)
       ELSE "None"

RECURSIVE unify_subtype(_, _, _, _)
RECURSIVE unify_subtype_params(_, _, _, _, _)

\* the loop of unify_subtype() over zip(variance, a.params, b.params)
unify_subtype_params(h, a, b, i, d) ==
    IF i > Len(a.params) \/ i > Len(b.params) THEN ok(h)
    ELSE LET r == IF variance(a.op)[i] = COVARIANT
                  THEN unify_subtype(h, a.params[i], b.params[i], d)
                  ELSE unify_subtype(h, b.params[i], a.params[i], d)
         IN IF r.st # "ok" THEN r
            ELSE unify_subtype_params(r.h, a, b, i + 1, d)

\* PlainTerm.unify_subtype
unify_subtype(h, self, other, d) ==
    LET a == follow(h, self)
        b == follow(h, other)
    IN IF d = 0 \/ a = Diverged \/ b = Diverged
       THEN raise(h, "RecursionError")
       ELSE IF a.k = "op" /\ b.k = "op"
       THEN IF basic(a.op)
            THEN (IF ~le(a.op, b.op) THEN raise(h, "SubtypeMismatch")
                  ELSE ok(h))
            ELSE IF a.op = b.op
            THEN unify_subtype_params(h, a, b, 1, d - 1)
            ELSE raise(h, "TypeMismatch")
       ELSE IF a.k = "var" /\ b.k = "var"
       THEN unify(h, a.id, b)
       ELSE IF a.k = "var" /\ b.k = "op"
       THEN IF contains(b, a) THEN raise(h, "RecursiveType")
            ELSE IF basic(b.op) THEN below(h, a.id, b.op)
            ELSE LET sk == skeleton(h, b)
                     r == unify(sk.h, a.id, sk.t)
                 IN IF r.st # "ok" THEN r
                    ELSE unify_subtype(r.h, a, b, d - 1)
       ELSE IF contains(a, b) THEN raise(h, "RecursiveType")
            ELSE IF basic(a.op) THEN above(h, b.id, a.op)
            ELSE LET sk == skeleton(h, a)
                     r == unify(sk.h, b.id, sk.t)
                 IN IF r.st # "ok" THEN r
                    ELSE unify_subtype(r.h, b, a, d - 1)

RECURSIVE resolve(_, _, _, _, _, _)
RECURSIVE resolve_params(_, _, _, _, _, _, _)

\* the generator of resolve() passing prefer_lower on as it is
resolve_params_same(h, a, i, force, resolve_subtypes, prefer_lower, d) ==
    IF i > Len(a.params) THEN [h |-> h, st |-> "ok", ts |-> <<>>]
    ELSE LET r == resolve(h, a.params[i], force, resolve_subtypes,
                          prefer_lower, d)
             rest == resolve_params(r.h, a, i + 1, force, resolve_subtypes,
                                    prefer_lower, d)
         IN IF r.st # "ok" THEN [h |-> r.h, st |-> r.st, ts |-> <<>>]
            ELSE [h |-> rest.h, st |-> rest.st, ts |-> <<r.t>> \o rest.ts]

\* the generator of resolve() over zip(a.operator.variance, a.params)
resolve_params(h, a, i, force, resolve_subtypes, prefer_lower, d) ==
    IF i > Len(a.params) THEN [h |-> h, st |-> "ok", ts |-> <<>>]
    ELSE LET r == resolve(h, a.params[i], force, resolve_subtypes,
                     prefer_lower # (variance(a.op)[i] = CONTRAVARIANT), d)
             rest == resolve_params(r.h, a, i + 1, force, resolve_subtypes,
                                    prefer_lower, d)
         IN IF r.st # "ok" THEN [h |-> r.h, st |-> r.st, ts |-> <<>>]
            ELSE [h |-> rest.h, st |-> rest.st, ts |-> <<r.t>> \o rest.ts]

\* the bound resolve() fuses the root cell v with, or None
resolve_bound(h, v, force, prefer_lower) ==
    IF prefer_lower /\ h[v].lower # None THEN h[v].lower
    ELSE IF ~prefer_lower /\ h[v].upper # None THEN h[v].upper
    ELSE IF force
    THEN (IF h[v].upper # None THEN h[v].upper ELSE h[v].lower)
    ELSE None

\* resolve() returning a copy: a variable it leaves unresolved is replaced
\* by a fresh VariableTerm with the same bounds
resolve_copy(h, self, force, resolve_subtypes, prefer_lower, d) ==
    LET a == follow(h, self)
    IN IF d = 0 \/ a = Diverged
       THEN [h |-> h, st |-> "RecursionError", t |-> NoTerm]
       ELSE IF a.k = "op"
       THEN LET r == resolve_params(h, a, 1, force, resolve_subtypes,
                                    prefer_lower, d - 1)
            IN [h |-> r.h, st |-> r.st,
                t |-> IF r.st = "ok" THEN OperatorTerm(a.op, r.ts)
                      ELSE NoTerm]
       ELSE IF ~resolve_subtypes THEN [h |-> h, st |-> "ok", t |-> a]
       ELSE LET bound == resolve_bound(h, a.id, force, prefer_lower)
            IN IF bound # None
               THEN LET r == unify(h, a.id, OperatorTerm(bound, <<>>))
                    IN [h |-> r.h, st |-> r.st,
                        t |-> IF r.st = "ok" THEN follow(r.h, a) ELSE NoTerm]
               ELSE [h |-> Append(h, h[a.id]), st |-> "ok",
                     t |-> Var(Len(h) + 1)]

\* PlainTerm.resolve : [h, st, t], t the term returned
resolve(h, self, force, resolve_subtypes, prefer_lower, d) ==
    LET a == follow(h, self)
    IN IF d = 0 \/ a = Diverged
       THEN [h |-> h, st |-> "RecursionError", t |-> NoTerm]
       ELSE IF a.k = "op"
       THEN LET r == resolve_params(h, a, 1, force, resolve_subtypes,
                                    prefer_lower, d - 1)
            IN [h |-> r.h, st |-> r.st,
                t |-> IF r.st = "ok" THEN OperatorTerm(a.op, r.ts)
                      ELSE NoTerm]
       ELSE IF ~resolve_subtypes THEN [h |-> h, st |-> "ok", t |-> a]
       ELSE LET bound == resolve_bound(h, a.id, force, prefer_lower)
                r == IF bound # None
                     THEN unify(h, a.id, OperatorTerm(bound, <<>>))
                     ELSE ok(h)
            IN [h |-> r.h, st |-> r.st,
                t |-> IF r.st = "ok" THEN follow(r.h, a) ELSE NoTerm]

----------------------------------------------------------------------------
(* Constraints *)

\* kwargs.get('at') of a constraint without the keyword
NoPosition == -1

\* Constraint.__init__ of class Member
Member(patterns) ==
    [kind |-> "Member", patterns |-> patterns, at |-> NoPosition]

\* Constraint.__init__ of class Param
Param(patterns, at) == [kind |-> "Param", patterns |-> patterns, at |-> at]

RECURSIVE Member_scan(_, _, _, _)

\* the loop of Member.enforce over self.patterns[1:], from index i on
Member_scan(h, c, i, d) ==
    IF i > Len(c.patterns) THEN "ViolatedConstraint"
    ELSE LET s == subtype(h, c.patterns[1], c.patterns[i], d)
         IN IF s = "True" THEN "False"
            ELSE IF s = "None" THEN "True"
            ELSE IF s = "RecursionError" THEN s
            ELSE Member_scan(h, c, i + 1, d)

\* Member.enforce : "True" (keep), "False" (fulfilled) or the exception
Member_enforce(h, c, d) == Member_scan(h, c, 2, d)

RECURSIVE Param_scan(_, _, _, _, _)

\* the loop of Param.enforce over self.patterns[1:] for the parameter p;
\* "next" when the loop ends without a return
Param_scan(h, c, p, i, d) ==
    IF i > Len(c.patterns) THEN "next"
    ELSE LET o == follow(h, c.patterns[i])
             s == IF o = Diverged THEN "RecursionError"
                  ELSE subtype(h, p, o, d)
         IN IF s = "True" THEN "False"
            ELSE IF s = "None" THEN "True"
            ELSE IF s = "RecursionError" THEN s
            ELSE Param_scan(h, c, p, i + 1, d)

RECURSIVE Param_params(_, _, _, _, _)

\* the loop of Param.enforce over subject.params, from index j on
Param_params(h, c, subject, j, d) ==
    IF j > Len(subject.params) THEN "ViolatedConstraint"
    ELSE LET p == follow(h, subject.params[j])
             s == IF p = Diverged THEN "RecursionError"
                  ELSE Param_scan(h, c, p, 2, d)
         IN IF s = "next" THEN Param_params(h, c, subject, j + 1, d) ELSE s

\* Param.enforce
Param_enforce(h, c, d) ==
    LET subject == follow(h, c.patterns[1])
    IN IF subject = Diverged THEN "RecursionError"
       ELSE IF subject.k = "op"
       THEN IF c.at = NoPosition THEN Param_params(h, c, subject, 1, d)
            ELSE IF c.at - 1 < Len(subject.params)
            THEN LET p == follow(h, subject.params[c.at])
                     s == IF p = Diverged THEN "RecursionError"
                          ELSE Param_scan(h, c, p, 2, d)
                 IN IF s = "next" THEN "ViolatedConstraint" ELSE s
            ELSE "ViolatedConstraint"
       ELSE "True"

\* Constraint.enforce, dispatched on the class
enforce(h, c, d) ==
    IF c.kind = "Member" THEN Member_enforce(h, c, d)
    ELSE Param_enforce(h, c, d)

RECURSIVE enforce_all(_, _, _, _)

\* the generator (c for c in constraints if c.enforce()): the results of
\* enforce in order, up to and including the first that raises
enforce_all(h, cs, i, d) ==
    IF i > Len(cs) THEN <<>>
    ELSE LET e == enforce(h, cs[i], d)
         IN IF e \in {"True", "False"}
            THEN <<e>> \o enforce_all(h, cs, i + 1, d)
            ELSE <<e>>

\* the exception the generator raises, or "ok"
enforce_status(es) ==
    IF es # <<>> /\ es[Len(es)] \notin {"True", "False"}
    THEN es[Len(es)] ELSE "ok"

\* the constraints the generator keeps
enforce_kept(cs, es) ==
    SelectSeq([i \in 1..Len(es) |-> [c |-> cs[i], e |-> es[i]]],
              LAMBDA x : x.e = "True")

kept_constraints(cs, es) ==
    LET ks == enforce_kept(cs, es) IN [i \in 1..Len(ks) |-> ks[i].c]

----------------------------------------------------------------------------
(* Top-level terms *)

\* what a call of Term.resolve or Term.apply on self leaves when it raises e
\* with the cells h: no Term is returned, the client keeps self
raised_with(h, e, self, es) == [h |-> h, st |-> e, t |-> self, enf |-> es]

\* Term(plain, *(c for c in cs if c.enforce())), es being the results of
\* the calls of enforce()
constrained(h, plain, self, cs, es) ==
    IF enforce_status(es) # "ok"
    THEN raised_with(h, enforce_status(es), self, es)
    ELSE [h |-> h, st |-> "ok", enf |-> es,
          t |-> Term(plain, kept_constraints(cs, es))]

\* Term.resolve after self.plain.resolve() has given r
Term_resolved(self, r, d) ==
    IF r.st # "ok" THEN raised_with(r.h, r.st, self, <<>>)
    ELSE constrained(r.h, r.t, self, self.constraints,
                     enforce_all(r.h, self.constraints, 1, d))

\* Term.resolve : [h, st, t, enf], enf the results of the enforce() calls
Term_resolve(h, self, force, d) ==
    Term_resolved(self, resolve(h, self.plain, force, TRUE, TRUE, d), d)

\* Term.apply after f.params[1].resolve() has given r2
apply_resolved(self, arg, r2, d) ==
    IF r2.st # "ok" THEN raised_with(r2.h, r2.st, self, <<>>)
    ELSE constrained(r2.h, r2.t, self, self.constraints \o arg.constraints,
                     enforce_all(r2.h, self.constraints \o arg.constraints,
                                 1, d))

\* Term.apply after x.unify_subtype(f.params[0]) has given r1
apply_unified(self, arg, f, r1, d) ==
    IF r1.st # "ok" THEN raised_with(r1.h, r1.st, self, <<>>)
    ELSE apply_resolved(self, arg,
                        resolve(r1.h, f.params[2], FALSE, TRUE, TRUE, d), d)

\* Term.apply from the test of f, the followed head of self.plain
apply_function(h, self, arg, f, x, d) ==
    IF f.k = "op" /\ f.op = "Function"
    THEN apply_unified(self, arg, f,
                       unify_subtype(h, x, f.params[1], d), d)
    ELSE raised_with(h, "NonFunctionApplication", self, <<>>)

\* Term.apply for a variable f0, r0 being the result of
\* f.unify(Function(VariableTerm(), VariableTerm()))
apply_variable(self, arg, f0, x, r0, d) ==
    IF r0.st # "ok" THEN raised_with(r0.h, r0.st, self, <<>>)
    ELSE apply_function(r0.h, self, arg, follow(r0.h, f0), x, d)

\* Term.apply : [h, st, t, enf]; t is the Term returned, self when it raises
apply(h, self, arg, d) ==
    LET f0 == follow(h, self.plain)
        x == follow(h, arg.plain)
    IN IF f0 = Diverged \/ x = Diverged
       THEN raised_with(h, "RecursionError", self, <<>>)
       ELSE IF f0.k = "var"
       THEN apply_variable(self, arg, f0, x,
                unify(h \o <<VariableTerm, VariableTerm>>, f0.id,
                      Function(Var(Len(h) + 1), Var(Len(h) + 2))), d)
       ELSE apply_function(h, self, arg, f0, x, d)

----------------------------------------------------------------------------
(* The client: terms it builds and the calls it makes *)

B(o) == OperatorTerm(o, <<>>)

T(t) == OperatorTerm("T", <<t>>)

Set(t) == OperatorTerm("Set", <<t>>)

\* the ids of the two variables the client of Spec constructs at the start
ClientVars == {1, 2}

ClientOps == {"Int", "UInt", "Bool"}

Leaves == {B(o) : o \in ClientOps} \cup {Var(i) : i \in ClientVars}

\* the terms the client of Spec passes to the calls
Universe == Leaves \cup {T(B("Int"))}

\* the same with the compound terms over its variables, for SpecCalls
UniverseCalls == Universe \cup {T(Var(i)) : i \in ClientVars}

\* the constraints the client of Spec constructs
Pool ==
    { Member(<<Var(1), B("Int"), T(B("Int"))>>),
      Member(<<Var(1), Var(2), B("Int")>>),
      Param(<<Var(1), B("Int")>>, NoPosition),
      Param(<<Var(2), B("Bool"), B("Int")>>, 1) }

InitTerms ==
    {Term(Function(Var(1), Var(2)), <<c>>) : c \in Pool}
    \cup {Term(Var(1), <<c>>) : c \in Pool}

\* the constraints of cs whose enforce() returned False in the results es
Fulfilled(cs, es) == {cs[i] : i \in {j \in 1..Len(es) : es[j] = "False"}}

\* `sat` after enforce() returned False for the constraints fs during call
\* number n: each constraint is entered once, with the number of mutating
\* calls made when it first returned False
Satisfied(old, fs, n) ==
    old \cup {[c |-> c, n |-> n] : c \in {f \in fs : \A s \in old : s.c # f}}

Init ==
    /\ cells = [i \in ClientVars |-> VariableTerm]
    /\ cur \in InitTerms
    /\ status = "init"
    /\ schema = "none"
    /\ hist = <<>>
    /\ sat = {}
    /\ raised = FALSE
    /\ calls = 0

\* the cells and the outcome a mutating call leaves, r being its result
Mutated(r) ==
    /\ cells' = r.h
    /\ status' = r.st
    /\ raised' = (raised \/ r.st # "ok")

\* the Term the client holds after cur = cur.apply(...) or cur.resolve(...)
\* with the result r: the constraints whose enforce() returned False are
\* entered in sat
Returned(r) ==
    /\ Mutated(r)
    /\ cur' = r.t
    /\ sat' = Satisfied(sat, Fulfilled(cur.constraints, r.enf), calls + 1)

\* the outcome e of c.enforce()
Enforced(c, e) ==
    /\ status' = (IF e \in {"True", "False"} THEN "ok" ELSE e)
    /\ sat' = (IF e = "False" THEN Satisfied(sat, {c}, calls) ELSE sat)
    /\ raised' = (raised \/ e \notin {"True", "False"})

\* a.unify_subtype(b)
UnifySubtypeCall(a, b) ==
    /\ calls < MaxCalls
    /\ Mutated(unify_subtype(cells, a, b, MaxDepth))
    /\ calls' = calls + 1
    /\ UNCHANGED <<cur, schema, hist, sat>>

\* cur = cur.apply(Term(x))
ApplyCall(x) ==
    /\ calls < MaxCalls
    /\ Returned(apply(cells, cur, Term(x, <<>>), MaxDepth))
    /\ calls' = calls + 1
    /\ UNCHANGED <<schema, hist>>

\* cur = cur.resolve(force)
ResolveCall(force) ==
    /\ calls < MaxCalls
    /\ Returned(Term_resolve(cells, cur, force, MaxDepth))
    /\ calls' = calls + 1
    /\ UNCHANGED <<schema, hist>>

\* c.enforce()
EnforceCall(c) ==
    /\ Enforced(c, enforce(cells, c, MaxDepth))
    /\ UNCHANGED <<cells, cur, schema, hist, calls>>

\* Var(v).above(op)
AboveCall(v, op) ==
    /\ calls < MaxCalls
    /\ Mutated(above(cells, v, op))
    /\ calls' = calls + 1
    /\ UNCHANGED <<cur, schema, hist, sat>>

\* Var(v).below(op)
BelowCall(v, op) ==
    /\ calls < MaxCalls
    /\ Mutated(below(cells, v, op))
    /\ calls' = calls + 1
    /\ UNCHANGED <<cur, schema, hist, sat>>

\* Var(v).unify(t)
UnifyCall(v, t) ==
    /\ calls < MaxCalls
    /\ Mutated(unify(cells, v, t))
    /\ calls' = calls + 1
    /\ UNCHANGED <<cur, schema, hist, sat>>

\* the calls that go through the unifier's entry points
NextCalls ==
    \/ \E a \in UniverseCalls, b \in UniverseCalls : UnifySubtypeCall(a, b)
    \/ \E x \in UniverseCalls : ApplyCall(x)
    \/ \E force \in BOOLEAN : ResolveCall(force)
    \/ \E c \in Pool : EnforceCall(c)

Next ==
    \/ \E a \in Universe, b \in Universe : UnifySubtypeCall(a, b)
    \/ \E x \in Universe : ApplyCall(x)
    \/ \E force \in BOOLEAN : ResolveCall(force)
    \/ \E c \in Pool : EnforceCall(c)
    \/ \E v \in ClientVars, op \in ClientOps : AboveCall(v, op)
    \/ \E v \in ClientVars, op \in ClientOps : BelowCall(v, op)
    \/ \E v \in ClientVars, t \in Universe : UnifyCall(v, t)

Spec == Init /\ [][Next]_vars

SpecCalls == Init /\ [][NextCalls]_vars

----------------------------------------------------------------------------
(* Schemas of the test-suite applied to arguments *)

Basics == {B(o) : o \in BasicOps}

\* the arguments a schema instance is applied to
ArgTerms ==
    Basics \cup {Set(b) : b \in Basics}
           \cup {Function(a, b) : a \in Basics, b \in Basics}

Schemas == {"leq", "leqC", "id", "sum", "compose"}

\* Schema.instance : one fresh VariableTerm per parameter of the lambda, in
\* the order of its signature, then the Term the lambda builds
Schema_instance(name) ==
    CASE name = "leq" ->
           [h |-> <<VariableTerm>>,
            t |-> Term(Function(Var(1), Function(Var(1), B("Bool"))), <<>>)]
      [] name = "leqC" ->
           [h |-> <<VariableTerm>>,
            t |-> Term(Function(Var(1), Function(Var(1), B("Bool"))),
                       <<Member(<<Var(1), B("Ord"), B("Bool")>>)>>)]
      [] name = "id" ->
           [h |-> <<VariableTerm>>,
            t |-> Term(Function(Var(1), Var(1)), <<>>)]
      [] name = "sum" ->
           [h |-> <<VariableTerm>>,
            t |-> Term(Function(Var(1), Var(1)),
                       <<Member(<<Var(1), B("Int"), Set(B("Int"))>>)>>)]
      [] name = "compose" ->
           [h |-> <<VariableTerm, VariableTerm, VariableTerm>>,
            t |-> Term(Function(Function(Var(2), Var(3)),
                                Function(Function(Var(1), Var(2)),
                                         Function(Var(1), Var(3)))), <<>>)]

InitApply ==
    /\ schema \in Schemas
    /\ cells = Schema_instance(schema).h
    /\ cur = Schema_instance(schema).t
    /\ status = "init"
    /\ hist = <<>>
    /\ sat = {}
    /\ raised = FALSE
    /\ calls = 0

\* cur = cur.apply(Term(x)), the expression ending at the first exception
ApplyArg(x) ==
    /\ status \in {"init", "ok"}
    /\ Returned(apply(cells, cur, Term(x, <<>>), MaxDepth))
    /\ hist' = Append(hist, [call |-> "apply", self |-> cur.plain, arg |-> x])
    /\ calls' = calls + 1
    /\ UNCHANGED schema

\* cur.plain.unify_subtype(b)
UnifySubtypeArg(b) ==
    /\ status \in {"init", "ok"}
    /\ Mutated(unify_subtype(cells, cur.plain, b, MaxDepth))
    /\ hist' = Append(hist,
                 [call |-> "unify_subtype", self |-> cur.plain, arg |-> b])
    /\ calls' = calls + 1
    /\ UNCHANGED <<cur, schema, sat>>

NextApply == Len(hist) < MaxApply /\ \E x \in ArgTerms : ApplyArg(x)

SpecApply == InitApply /\ [][NextApply]_vars

----------------------------------------------------------------------------
(* Ground terms: one call on a pair of terms without variables *)

Ground ==
    Basics \cup {T(b) : b \in Basics}
           \cup {Function(a, b) :
                   a \in Basics \cup {T(b) : b \in Basics}, b \in Basics}

InitGround ==
    /\ schema = "ground"
    /\ cells = <<VariableTerm>>
    /\ cur \in {Term(g, <<>>) : g \in Ground}
    /\ status = "init"
    /\ hist = <<>>
    /\ sat = {}
    /\ raised = FALSE
    /\ calls = 0

NextGround ==
    /\ hist = <<>>
    /\ \/ \E b \in Ground : UnifySubtypeArg(b)
       \/ \E x \in Ground : ApplyArg(x)

SpecGround == InitGround /\ [][NextGround]_vars

----------------------------------------------------------------------------
(* A plain term resolved, and its result resolved again with the same flags *)

\* the terms resolve() is called on: the variables of the client at one
\* position, at a covariant and a contravariant position, and nested
ResolveTerms ==
    { Var(1), B("Int"), T(Var(1)),
      Function(Var(1), Var(1)), Function(Var(1), Var(2)),
      Function(Function(Var(1), Var(2)), Var(1)) }

InitResolve ==
    /\ schema = "resolve"
    /\ cells = [i \in ClientVars |-> VariableTerm]
    /\ cur = Term(Var(1), <<>>)
    /\ status = "init"
    /\ hist = <<>>
    /\ sat = {}
    /\ raised = FALSE
    /\ calls = 0

\* cur = Term(t.resolve(...)) with the result r of the call
PlainResolved(r) ==
    /\ Mutated(r)
    /\ cur' = (IF r.st = "ok" THEN Term(r.t, <<>>) ELSE cur)

\* the record of t.resolve(force, resolve_subtypes, prefer_lower) made on
\* the cells h
ResolveRecord(h, t, force, resolve_subtypes, prefer_lower) ==
    [call |-> "resolve", self |-> t, force |-> force,
     resolve_subtypes |-> resolve_subtypes, prefer_lower |-> prefer_lower,
     before |-> h]

\* cur = Term(t.resolve(force, resolve_subtypes, prefer_lower))
PlainResolveCall(t, force, resolve_subtypes, prefer_lower) ==
    /\ hist = <<>>
    /\ PlainResolved(resolve(cells, t, force, resolve_subtypes, prefer_lower,
                             MaxDepth))
    /\ hist' = <<ResolveRecord(cells, t, force, resolve_subtypes,
                               prefer_lower)>>
    /\ calls' = calls + 1
    /\ UNCHANGED <<schema, sat>>

\* cur = Term(cur.plain.resolve(...)) with the flags of the call before
PlainResolveAgain ==
    /\ Len(hist) = 1
    /\ status = "ok"
    /\ PlainResolved(resolve(cells, cur.plain, hist[1].force,
                             hist[1].resolve_subtypes, hist[1].prefer_lower,
                             MaxDepth))
    /\ hist' = Append(hist, ResolveRecord(cells, cur.plain, hist[1].force,
                                          hist[1].resolve_subtypes,
                                          hist[1].prefer_lower))
    /\ calls' = calls + 1
    /\ UNCHANGED <<schema, sat>>

\* the calls that bind and bound the variables, then the two resolve()
NextResolve ==
    \/ /\ hist = <<>>
       /\ \/ \E a \in Universe, b \in Universe : UnifySubtypeCall(a, b)
          \/ \E v \in ClientVars, op \in ClientOps : AboveCall(v, op)
          \/ \E v \in ClientVars, op \in ClientOps : BelowCall(v, op)
          \/ \E v \in ClientVars, t \in Universe : UnifyCall(v, t)
    \/ \E t \in ResolveTerms, force \in BOOLEAN, resolve_subtypes \in BOOLEAN,
          prefer_lower \in BOOLEAN :
            PlainResolveCall(t, force, resolve_subtypes, prefer_lower)
    \/ PlainResolveAgain

SpecResolve == InitResolve /\ [][NextResolve]_vars

----------------------------------------------------------------------------
(* The entry points called on terms that fuse a variable with a variable *)

\* the terms of the client of SpecFused: its leaves, and function terms
\* that pair one variable with the other and with a compound term
FuseTerms ==
    Leaves \cup { T(B("Int")), Function(Var(2), Var(2)),
                  Function(Var(1), T(B("Int"))) }

NextFused ==
    \/ \E a \in FuseTerms, b \in FuseTerms : UnifySubtypeCall(a, b)
    \/ \E x \in FuseTerms : ApplyCall(x)
    \/ \E force \in BOOLEAN : ResolveCall(force)

SpecFused == Init /\ [][NextFused]_vars

----------------------------------------------------------------------------
(* Properties *)

ErrorKinds ==
    {"NonFunctionApplication", "SubtypeMismatch", "TypeMismatch",
     "RecursiveType", "ViolatedConstraint"}

\* C1: after calls none of which raised, every cell that has both a lower
\* and an upper bound has lower <= upper in the declared order.
BoundsOrdered ==
    ~raised =>
        \A i \in 1..Len(cells) :
            (cells[i].lower # None /\ cells[i].upper # None)
                => le(cells[i].lower, cells[i].upper)

RECURSIVE VarsOf(_)

\* the ids of the variable cells written in the term t
VarsOf(t) ==
    IF t.k = "var" THEN {t.id}
    ELSE UNION {VarsOf(t.params[i]) : i \in 1..Len(t.params)}

RECURSIVE Closure(_, _, _)

\* the cells reached from the cells S through `unified` and parameters
Closure(h, S, n) ==
    IF n = 0 THEN S
    ELSE Closure(h, S \cup UNION {VarsOf(h[i].unified) : i \in S}, n - 1)

\* the cells inside the transitive parameters of the representative of v
Inside(h, v) ==
    LET r == follow(h, Var(v))
    IN IF r = Diverged THEN {v}
       ELSE IF r.k = "op" THEN Closure(h, VarsOf(r), Len(h))
       ELSE {}

\* C2: no variable cell occurs inside the transitive parameters of its own
\* representative, the unified chains being followed during the walk.
NoCellInsideItsRepresentative ==
    \A v \in 1..Len(cells) : v \notin Inside(cells, v)

\* C3: every call of apply or unify_subtype returns or raises one of the
\* five error kinds.
CallsReturnOrRaiseErrorKind == status \in {"init", "ok"} \cup ErrorKinds

\* C4: the identity schema applied to a ground compound argument returns a
\* term structurally equal to the argument.
IdReturnsCompoundArgument ==
    (schema = "id" /\ Len(hist) = 1 /\ hist[1].arg \notin Basics)
        => (status = "ok" /\ cur.plain = hist[1].arg)

\* C5: leq with Member(alpha, Ord, Bool) applied to a basic argument raises
\* ViolatedConstraint when the argument is a subtype of neither
\* alternative, and succeeds when it is a subtype of one of them.
MemberDecidedAtApply ==
    (schema = "leqC" /\ Len(hist) = 1 /\ hist[1].arg \in Basics)
        => IF le(hist[1].arg.op, "Ord") \/ le(hist[1].arg.op, "Bool")
           THEN status = "ok"
           ELSE status = "ViolatedConstraint"

\* the results of subject.subtype(alternative) over all alternatives of c
Alternatives(h, c) ==
    {subtype(h, c.patterns[1], c.patterns[i], MaxDepth) :
        i \in 2..Len(c.patterns)}

\* C6: Member.enforce returns False iff some alternative yields True,
\* raises ViolatedConstraint iff every alternative yields False, and
\* returns True iff none yields True and some yields None.
MemberDecidesOverAllAlternatives ==
    \A c \in {m \in Pool : m.kind = "Member"} :
        LET rs == Alternatives(cells, c)
            e == Member_enforce(cells, c, MaxDepth)
        IN "RecursionError" \notin rs =>
            /\ (e = "False") <=> ("True" \in rs)
            /\ (e = "ViolatedConstraint") <=> (rs = {"False"})
            /\ (e = "True") <=> ("True" \notin rs /\ "None" \in rs)

\* the declared lineage: the supertypes of each basic operator
Ancestors(o) ==
    CASE o = "Any" -> {"Any"}
      [] o = "Ord" -> {"Ord", "Any"}
      [] o = "Bool" -> {"Bool", "Ord", "Any"}
      [] o = "Str" -> {"Str", "Ord", "Any"}
      [] o = "Int" -> {"Int", "Ord", "Any"}
      [] o = "UInt" -> {"UInt", "Int", "Ord", "Any"}
      [] OTHER -> {}

RECURSIVE GroundLe(_, _)

\* a <= b for ground terms: the lineage at basic operators, the variance
\* at the parameters of the same compound operator
GroundLe(a, b) ==
    IF a.op \in BasicOps THEN b.op \in Ancestors(a.op)
    ELSE /\ a.op = b.op
         /\ \A i \in 1..Len(a.params) :
               IF a.op = "Function" /\ i = 1
               THEN GroundLe(b.params[i], a.params[i])
               ELSE GroundLe(a.params[i], b.params[i])

\* C7: on ground terms unify_subtype(a, b) returns without raising and
\* without changing a cell iff subtype(a, b) is True, and apply(A -> B, x)
\* returns B when x <= A and raises otherwise.
GroundUnifierAgreesWithSubtype ==
    (schema = "ground" /\ Len(hist) = 1) =>
        /\ hist[1].call = "unify_subtype" =>
              ((status = "ok" /\ cells = <<VariableTerm>>)
                  <=> subtype(<<VariableTerm>>, hist[1].self, hist[1].arg,
                              MaxDepth) = "True")
        /\ (hist[1].call = "apply" /\ hist[1].self.op = "Function") =>
              IF GroundLe(hist[1].arg, hist[1].self.params[1])
              THEN status = "ok" /\ cur.plain = hist[1].self.params[2]
              ELSE status \in ErrorKinds

\* C7 witness: a function over T(Int) applied to the strict subtype T(UInt)
GroundApplyOfSubtype ==
    /\ schema = "ground" /\ Len(hist) = 1
    /\ hist[1].call = "apply"
    /\ hist[1].self = Function(T(B("Int")), B("Str"))
    /\ hist[1].arg = T(B("UInt"))
    /\ status = "ok"
    /\ cur.plain = B("Str")

Comparable(a, b) == a \in Ancestors(b) \/ b \in Ancestors(a)

\* C8: leq applied to basic A and then to basic B returns Bool iff A and B
\* are comparable, and raises SubtypeMismatch when they are not.
LeqSucceedsIffComparable ==
    (/\ schema = "leq" /\ Len(hist) = 2
     /\ hist[1].arg \in Basics /\ hist[2].arg \in Basics)
        => IF Comparable(hist[1].arg.op, hist[2].arg.op)
           THEN status = "ok" /\ cur.plain = B("Bool")
           ELSE status = "SubtypeMismatch"

\* C8 witness: leq(Int)(UInt), the second argument below the first
LeqOfIntAndUInt ==
    /\ schema = "leq" /\ Len(hist) = 2
    /\ hist[1].arg = B("Int") /\ hist[2].arg = B("UInt")
    /\ status = "ok"
    /\ cur.plain = B("Bool")

\* C9: compose(B -> C)(A -> B') is A -> C when B' <= B, and raises
\* SubtypeMismatch when B' is not a subtype of B.
ComposeYieldsArrow ==
    (/\ schema = "compose" /\ Len(hist) = 2
     /\ hist[1].arg.op = "Function" /\ hist[2].arg.op = "Function")
        => LET b1 == hist[1].arg.params[1]
               c == hist[1].arg.params[2]
               a == hist[2].arg.params[1]
               b2 == hist[2].arg.params[2]
           IN IF b1.op \in Ancestors(b2.op)
              THEN status = "ok" /\ cur.plain = Function(a, c)
              ELSE status = "SubtypeMismatch"

\* C9 witness: compose(Int -> Str)(Str -> UInt), UInt strictly below Int
ComposeWithStrictSubtype ==
    /\ schema = "compose" /\ Len(hist) = 2
    /\ hist[1].arg = Function(B("Int"), B("Str"))
    /\ hist[2].arg = Function(B("Str"), B("UInt"))
    /\ status = "ok"
    /\ cur.plain = Function(B("Str"), B("Str"))

\* C10: a constraint whose enforce() has returned False returns False at
\* every later enforce().
SatisfiedStaysSatisfied ==
    \A s \in sat : enforce(cells, s.c, MaxDepth) = "False"

\* C10 witness: a constraint was fulfilled, a mutating call was made later
\* and no call has raised
FulfilledBeforeLaterCall ==
    /\ ~raised
    /\ status = "ok"
    /\ \E s \in sat : s.n < calls


RECURSIVE Followed(_, _, _)

\* the term t with every unified cell replaced by what it leads to
Followed(h, t, n) ==
    LET a == follow(h, t)
    IN IF n = 0 \/ a = Diverged THEN Diverged
       ELSE IF a.k = "op"
       THEN OperatorTerm(a.op, [i \in 1..Len(a.params) |->
                                   Followed(h, a.params[i], n - 1)])
       ELSE a

\* C11: resolve is idempotent: when t.resolve(flags) has returned r, then
\* r.resolve(flags) returns a term structurally equal to r after following
\* unified cells, and changes no cell.
ResolveIdempotent ==
    (schema = "resolve" /\ Len(hist) = 2) =>
        /\ status = "ok"
        /\ cells = hist[2].before
        /\ Followed(cells, cur.plain, MaxDepth)
              = Followed(cells, hist[2].self, MaxDepth)

\* C11 witness: Function(v, v) with only a lower bound on v was resolved:
\* the contravariant position left v as it was, the covariant one fused it
\* with the bound, and the result was resolved again
ResolvedBothVariancesTwice ==
    /\ schema = "resolve" /\ Len(hist) = 2
    /\ hist[1].self = Function(Var(1), Var(1))
    /\ hist[1].prefer_lower /\ hist[1].resolve_subtypes /\ ~hist[1].force
    /\ hist[1].before[1].unified = NoTerm
    /\ hist[1].before[1].lower = "Int"
    /\ hist[1].before[1].upper = None
    /\ hist[2].self = Function(Var(1), B("Int"))
    /\ status = "ok"
    /\ cur.plain = Function(B("Int"), B("Int"))


\* C12: unify_subtype on two operator terms raises SubtypeMismatch exactly
\* when both heads are basic and not a.op <= b.op, and TypeMismatch whenever
\* the heads are not both basic and are not the same compound operator.
UnifySubtypeErrorKindByHeads ==
    (schema = "ground" /\ Len(hist) = 1 /\ hist[1].call = "unify_subtype") =>
        LET a == hist[1].self
            b == hist[1].arg
        IN /\ (basic(a.op) /\ basic(b.op)) =>
                  (status = IF le(a.op, b.op) THEN "ok"
                            ELSE "SubtypeMismatch")
           /\ (~(basic(a.op) /\ basic(b.op)) /\ a.op # b.op) =>
                  status = "TypeMismatch"


\* lower <= op <= upper for the bounds the cell c has
WithinBounds(c, op) ==
    /\ c.lower # None => op \in Ancestors(c.lower)
    /\ c.upper # None => c.upper \in Ancestors(op)

\* C13: unify of a cell that is not fused with the term of a basic operator
\* op returns when lower <= op <= upper holds for the bounds the cell has,
\* and raises SubtypeMismatch otherwise.
UnifyBasicChecksBounds ==
    [][\A v \in ClientVars, op \in ClientOps :
          (cells[v].unified = NoTerm /\ UnifyCall(v, B(op)))
              => status' = IF WithinBounds(cells[v], op) THEN "ok"
                           ELSE "SubtypeMismatch"]_vars


\* the bounds of the representative of the cell v subsume the bounds of v
Subsumed(h, v) ==
    LET r == follow(h, Var(v))
    IN /\ h[v].lower # None =>
             \/ r.k = "var" /\ h[r.id].lower \in Ancestors(h[v].lower)
             \/ r.k = "op" /\ r.op \in Ancestors(h[v].lower)
       /\ h[v].upper # None =>
             \/ r.k = "var" /\ h[v].upper \in Ancestors(h[r.id].upper)
             \/ r.k = "op" /\ h[v].upper \in Ancestors(r.op)

\* the cell v is fused with a variable cell
FusedWithCell(h, v) == v <= Len(h) /\ h[v].unified.k = "var"

\* a cell fused with a variable cell keeps its bounds and its pointer
FusedCellsFrozen ==
    \A v \in 1..Len(cells) : FusedWithCell(cells, v) => cells'[v] = cells[v]

\* the target of a cell fused just now is fused with the term of its bound
\* when its two bounds are equal
EqualBoundsFused ==
    \A v \in 1..Len(cells') :
        (FusedWithCell(cells', v) /\ ~FusedWithCell(cells, v)) =>
            LET t == cells'[cells'[v].unified.id]
            IN (t.lower # None /\ t.lower = t.upper)
                  => t.unified = B(t.lower)

\* C14: as long as no call raises, a cell fused with another variable cell
\* never changes again, the bounds of its representative subsume its own,
\* and a target whose bounds are equal after the fusion is fused with the
\* term of that basic operator.
FusedCellFrozenAndSubsumed ==
    [][~raised' =>
          /\ FusedCellsFrozen
          /\ \A v \in 1..Len(cells') :
                FusedWithCell(cells', v) => Subsumed(cells', v)
          /\ EqualBoundsFused]_vars

====
